---------------------------- MODULE Spec2Model ----------------------------
(***************************************************************************)
(* Client-side processing lifecycle of Rapid-Minutes-Export.               *)
(*                                                                         *)
(* The page runs on one event loop:                                        *)
(*   - the orchestrator (src/unnamed/part_000): file selection, upload,    *)
(*     generation trigger, status polling, reset;                          *)
(*   - DownloadManager (src/static/js/download.js);                        *)
(*   - EnhancedUX (src/static/js/enhanced-ux.js): the notification list    *)
(*     and the second file-input change listener;                          *)
(*   - ErrorHandler (src/static/js/preview.js): the fetch wrapper and      *)
(*     showDetailedError.                                                  *)
(* The orchestrator tests window.enhancedUX and window.errorHandler before *)
(* every use, so it runs with or without them; enhanced says which.        *)
(* Every handler body between two awaits is one atomic action; a pending   *)
(* fetch or timer is state, and its resolution is a separate action.       *)
(* Texts (progressText, button labels, messages) are not part of the       *)
(* state.                                                                  *)
(***************************************************************************)
EXTENDS Integers, Sequences, FiniteSets, TLC

VARIABLES
    enhanced,               \* window.enhancedUX and window.errorHandler exist
    currentFileId,          \* part_000:2
    processCheckInterval,   \* part_000:3, the handle of the poll timer or NoTimer
    selectedFile,           \* window.selectedFile
    dom,                    \* the DOM fields the orchestrator writes
    activeTimers,           \* the browser's table of live setInterval handles
    nextTimer,              \* the handle the next setInterval returns
    statusInFlight,         \* GET /api/status requests awaiting their response,
                            \* each the handle of the timer whose tick sent it
    generating,             \* handleGenerate activations suspended at an await,
                            \* those awaiting the trigger's response first
    successTimers,          \* whether 3000 ms timers of showSuccess are pending;
                            \* hideSuccess is idempotent, so their number is not kept
    notifications,          \* EnhancedUX: this.notifications, the elements of
                            \* #notification-container and the pending hide timers
    suggestionTimers,       \* pending 2000 ms timers of showDetailedError
    currentStep,            \* EnhancedUX.currentStep
    errorLog,               \* ErrorHandler.errorLog: the type of each entry and
                            \* its number in the order of the logError calls
    dm,                     \* DownloadManager: currentProcessId, its section,
                            \* the onclick handlers, the downloadMessage element
    button,                 \* the two download buttons: class, disabled, unavailable
    downloadsInFlight,      \* GET /api/download requests awaiting their response
    revertTimers,           \* pending resetDownloadButton timers (3000/5000 ms)
    messageTimers,          \* pending 5000 ms timers of DownloadManager.showMessage
    saveAs,                 \* the Content-Disposition header, artifact type and
                            \* date of one download response, and the file name
                            \* extractFilename derived from them
    networkError,           \* ErrorHandler: the status of one response handed to
                            \* handleNetworkError and the title and message
                            \* it passes to showUserFriendlyError
    pm,                     \* ProgressManager: currentProgress, updateInterval,
                            \* the live handles of its setInterval calls, the
                            \* next handle, its status requests in flight and
                            \* the pending 2000 ms timers of completeProgress
    welcome,                \* the localStorage item rapid-minutes-visited, the
                            \* pending 1000 ms timer of initializeEnhancedUX,
                            \* and as history the number of page loads and of
                            \* displays of the welcome guide
    consecutiveFailures,    \* history: the status requests that failed in a row
                            \* (rejected or not ok), counted up to 3
    lastOp                  \* history: the handler that ran last and its outcome

vars == <<enhanced, currentFileId, processCheckInterval, selectedFile, dom,
          activeTimers, nextTimer, statusInFlight, generating, successTimers, notifications,
          suggestionTimers, currentStep, errorLog, dm, button, downloadsInFlight,
          revertTimers, messageTimers, saveAs, networkError, welcome, pm,
          consecutiveFailures, lastOp>>

orchVars == <<currentFileId, processCheckInterval, selectedFile, dom, activeTimers,
              nextTimer, statusInFlight, generating, successTimers,
              consecutiveFailures>>

uxVars == <<notifications, suggestionTimers, currentStep, errorLog>>

dmVars == <<dm, button, downloadsInFlight, revertTimers, messageTimers, saveAs>>

---------------------------------------------------------------------------
(* Bounds of the model *)

MaxInFlight == 2
MaxTimers == 2
MaxGenerate == 2
MaxNotifications == 2
MaxPickNotifications == 4
MaxSuggestionTimers == 1
MaxDownloads == 2
MaxRevertTimers == 2
MaxMessageTimers == 1
MaxLogged == 2
MinStatus == 300
MaxStatus == 599
MaxStartups == 4
MaxProgressTimers == 2
MaxProgressChecks == 1
MaxHideTimers == 1

---------------------------------------------------------------------------
(* Values *)

NoId == "null"
FileIds == {"abc123", "def456"}

\* The file_id POST /api/upload answers with.
UploadIds == {"abc123"}
NoTimer == 0
NoProgress == -1000

\* A file name is the sequence of its characters.
TxtSuffix == <<".", "t", "x", "t">>
NoFile == [name |-> <<>>, type |-> "none", size |-> -1]

maxSize == 10 * 1024 * 1024

FileNames == { <<"n", ".", "t", "x", "t">>,
               <<"N", ".", "T", "X", "T">>,
               <<"n", ".", "p", "d", "f">>,
               <<"t", "x", "t">> }
FileTypes == {"text/plain", "application/pdf"}
FileSizes == {0, 5120, maxSize, maxSize + 1}
Files == [name : FileNames, type : FileTypes, size : FileSizes]

\* The file offered in the specifications that are not about validation.
SessionFiles ==
    { [name |-> <<"n", ".", "t", "x", "t">>, type |-> "text/plain", size |-> 5120] }

ArtifactTypes == {"word", "pdf"}

NoOp == [op |-> "init", outcome |-> "", stale |-> FALSE, file |-> NoFile,
         progress |-> NoProgress]
Did(op, outcome) == [NoOp EXCEPT !.op = op, !.outcome = outcome]

---------------------------------------------------------------------------
(* String helpers: String.prototype.toLowerCase and endsWith *)

toLowerChar(c) ==
    CASE c = "N" -> "n"
      [] c = "T" -> "t"
      [] c = "X" -> "x"
      [] c = "P" -> "p"
      [] c = "D" -> "d"
      [] c = "F" -> "f"
      [] OTHER -> c

toLowerCase(s) == [i \in 1..Len(s) |-> toLowerChar(s[i])]

endsWith(s, suffix) ==
    /\ Len(s) >= Len(suffix)
    /\ SubSeq(s, Len(s) - Len(suffix) + 1, Len(s)) = suffix

RemoveAt(s, i) == SubSeq(s, 1, i - 1) \o SubSeq(s, i + 1, Len(s))

---------------------------------------------------------------------------
(* EnhancedUX notifications and ErrorHandler *)

\* The notification state ns of EnhancedUX has three parts:
\*   list       this.notifications, an entry [id, type] per push;
\*   container  the children of #notification-container in document order,
\*              each with the number of its action buttons, hiding set once
\*              hideNotification has scheduled the removal;
\*   timers     the ids of the pending 5000 ms timers of showNotification.
NoNotifications == [list |-> <<>>, container |-> <<>>, timers |-> <<>>]

NotificationTypes == {"success", "error", "warning", "info"}

\* enhanced-ux.js:160: the id is Date.now().toString(). Ids are compared for
\* equality only, so a reading of a later millisecond is the least number
\* no element carries; same says that the clock still shows the
\* millisecond of the element created last.
DateNow(ns, same) ==
    IF same /\ ns.container # <<>>
    THEN ns.container[Len(ns.container)].id
    ELSE CHOOSE n \in 1..(Len(ns.container) + 1) :
             /\ \A k \in 1..Len(ns.container) : ns.container[k].id # n
             /\ \A m \in 1..(n - 1) : \E k \in 1..Len(ns.container) :
                    ns.container[k].id = m

\* enhanced-ux.js:149
showNotification(ns, type, actions, same) ==
    LET id == DateNow(ns, same)
    IN [list |-> Append(ns.list, [id |-> id, type |-> type]),
        container |-> Append(ns.container, [id |-> id, type |-> type,
                                            actions |-> actions, hiding |-> FALSE]),
        timers |-> IF type # "error" THEN Append(ns.timers, id) ELSE ns.timers]

\* document.querySelector('[data-id="id"]'): the first element in document
\* order that carries the id, 0 if there is none.
querySelector(ns, id) ==
    LET ks == {k \in 1..Len(ns.container) : ns.container[k].id = id}
    IN IF ks = {} THEN 0 ELSE CHOOSE k \in ks : \A k2 \in ks : k <= k2

\* enhanced-ux.js:201 up to its 300 ms timer.
hideNotification(ns, id) ==
    IF querySelector(ns, id) = 0 THEN ns
    ELSE [ns EXCEPT !.container[querySelector(ns, id)].hiding = TRUE]

\* enhanced-ux.js:206-207, the 300 ms timer of hideNotification for element
\* k: the element leaves the document and every entry with its id leaves
\* the list. A 5000 ms timer whose id no element carries any more finds
\* nothing to hide and is dropped here.
removeNotification(ns, k) ==
    LET rest == RemoveAt(ns.container, k)
    IN [list |-> SelectSeq(ns.list, LAMBDA n : n.id # ns.container[k].id),
        container |-> rest,
        timers |-> SelectSeq(ns.timers,
                             LAMBDA id : \E j \in 1..Len(rest) : rest[j].id = id)]

\* validateFileWithFeedback: the three tests, in the order they are run.
typeTest(file) == file.type = "text/plain" \/ endsWith(toLowerCase(file.name), TxtSuffix)
sizeTest(file) == file.size <= 10 * 1024 * 1024
contentTest(file) == file.size > 0

testNotification(ok) == IF ok THEN "success" ELSE "error"

validateFileWithFeedback(file) ==
    typeTest(file) /\ sizeTest(file) /\ contentTest(file)

\* enhanced-ux.js:535-542: one notification per test, in one forEach.
validationNotifications(ns, file, same) ==
    showNotification(
        showNotification(
            showNotification(ns, testNotification(typeTest(file)), 0, FALSE),
            testNotification(sizeTest(file)), 0, same),
        testNotification(contentTest(file)), 0, same)

\* The number of the entry logged last: entries that were in the log when
\* the page is first looked at have numbers up to 0, the n-th logError call
\* since then logs entry n.
lastLogged(log) == IF log = <<>> THEN 0 ELSE log[Len(log)].n

logError_KeepsOldest(log, type) ==
    LET pushed == Append(log, [type |-> type, n |-> lastLogged(log) + 1])
    IN IF Len(pushed) > 50 THEN SubSeq(pushed, 1, 25) ELSE pushed

\* preview.js:325
logError(log, type) ==
    LET pushed == Append(log, [type |-> type, n |-> lastLogged(log) + 1])
    IN IF Len(pushed) > 50
       THEN SubSeq(pushed, Len(pushed) - 24, Len(pushed))
       ELSE pushed

\* The types the callers of logError pass.
LogTypes == {"JavaScript Error", "Unhandled Promise Rejection", "Network Error",
             "Generation Error", "Status Check Error"}

\* A call of errorHandler.logError, by a caller on the page or by the
\* listeners of setupGlobalErrorHandling.
LogError(type) ==
    /\ lastLogged(errorLog) < MaxLogged
    /\ errorLog' = logError(errorLog, type)
    /\ lastOp' = Did("logError", type)
    /\ UNCHANGED <<enhanced, networkError, welcome, pm,
                   orchVars, notifications, suggestionTimers, currentStep,
                   dmVars>>

\* The status of a response the fetch wrapper hands on: response.ok is
\* false, so it lies outside 200..299. A rejected fetch hands on an Error,
\* which has no status field; NoStatus stands for that undefined.
NoStatus == 0
FailedStatuses == MinStatus..MaxStatus

\* `${response.status}`
statusText(status) == ToString(status)

\* The switch with the case labels 502, 503 and 504 left out.
handleNetworkError_NoGateway(status) ==
    IF status = NoStatus
    THEN [title |-> "Connection Error",
          message |-> <<"Unable to connect to the server. Please check your internet connection and try again.">>]
    ELSE CASE status = 400 ->
                [title |-> "Invalid Request",
                 message |-> <<"The request was not formatted correctly. Please check your input and try again.">>]
           [] status = 401 ->
                [title |-> "Authentication Required",
                 message |-> <<"Please log in to continue.">>]
           [] status = 403 ->
                [title |-> "Access Denied",
                 message |-> <<"You do not have permission to perform this action.">>]
           [] status = 404 ->
                [title |-> "Not Found",
                 message |-> <<"The requested resource could not be found.">>]
           [] status = 413 ->
                [title |-> "File Too Large",
                 message |-> <<"The uploaded file exceeds the 10MB size limit. Please select a smaller file.">>]
           [] status = 429 ->
                [title |-> "Too Many Requests",
                 message |-> <<"Please wait a moment before trying again.">>]
           [] status = 500 ->
                [title |-> "Server Error",
                 message |-> <<"A server error occurred. Please try again in a few minutes.">>]
           [] OTHER ->
                [title |-> "Network Error",
                 message |-> <<"An unexpected error occurred (", statusText(status),
                               "). Please try again.">>]

\* preview.js:345: the title and the message handleNetworkError passes to
\* showUserFriendlyError; `if (response.status)` takes the else branch for
\* an undefined status. The message is the sequence of the template's parts.
handleNetworkError(status) ==
    IF status = NoStatus
    THEN [title |-> "Connection Error",
          message |-> <<"Unable to connect to the server. Please check your internet connection and try again.">>]
    ELSE CASE status = 400 ->
                [title |-> "Invalid Request",
                 message |-> <<"The request was not formatted correctly. Please check your input and try again.">>]
           [] status = 401 ->
                [title |-> "Authentication Required",
                 message |-> <<"Please log in to continue.">>]
           [] status = 403 ->
                [title |-> "Access Denied",
                 message |-> <<"You do not have permission to perform this action.">>]
           [] status = 404 ->
                [title |-> "Not Found",
                 message |-> <<"The requested resource could not be found.">>]
           [] status = 413 ->
                [title |-> "File Too Large",
                 message |-> <<"The uploaded file exceeds the 10MB size limit. Please select a smaller file.">>]
           [] status = 429 ->
                [title |-> "Too Many Requests",
                 message |-> <<"Please wait a moment before trying again.">>]
           [] status = 500 ->
                [title |-> "Server Error",
                 message |-> <<"A server error occurred. Please try again in a few minutes.">>]
           [] status \in {502, 503, 504} ->
                [title |-> "Service Unavailable",
                 message |-> <<"The service is temporarily unavailable. Please try again later.">>]
           [] OTHER ->
                [title |-> "Network Error",
                 message |-> <<"An unexpected error occurred (", statusText(status),
                               "). Please try again.">>]

NoNetworkError == [status |-> NoStatus, title |-> "", message |-> <<>>]

\* One call of handleNetworkError by the fetch wrapper: the notification of
\* showUserFriendlyError, then logError('Network Error').
HandleNetworkError ==
    /\ networkError.title = ""
    /\ networkError' = [status |-> networkError.status,
                        title |-> handleNetworkError(networkError.status).title,
                        message |-> handleNetworkError(networkError.status).message]
    /\ notifications' = showNotification(notifications, "error", 0, FALSE)
    /\ errorLog' = logError(errorLog, "Network Error")
    /\ lastOp' = Did("handleNetworkError", handleNetworkError(networkError.status).title)
    /\ UNCHANGED <<enhanced, welcome, pm, orchVars, suggestionTimers, currentStep,
                   dmVars>>

\* preview.js:393: handleNetworkError ends with logError('Network Error').
wrapperLog(log, kind) ==
    IF enhanced /\ kind \in {"rejected", "non2xx"}
    THEN logError(log, "Network Error")
    ELSE log

\* window.errorHandler?.logError(type, ...) in a catch block of part_000.
catchLog(log, type) == IF enhanced THEN logError(log, type) ELSE log

\* The wrapper calling handleNetworkError for a rejected fetch only.
fetchWrapper_RejectionsOnly(ns, kind) ==
    IF enhanced /\ kind = "rejected"
    THEN showNotification(ns, "error", 0, FALSE)
    ELSE ns

\* ErrorHandler's fetch wrapper: handleNetworkError shows one error
\* notification for a response that is not ok and for a rejected fetch,
\* through showUserFriendlyError(title, message) and its default actions = [].
fetchWrapper(ns, kind) ==
    IF enhanced /\ kind \in {"rejected", "non2xx"}
    THEN showNotification(ns, "error", 0, FALSE)
    ELSE ns

\* part_000:302 showError(message, operation), d and ns being the DOM and the
\* notification state the caller has reached, cap the bound on the elements
\* of the container, same whether the clock still shows the millisecond of
\* the notification before.
\* With ErrorHandler it is showDetailedError: one error notification with the
\* actions Try Again and Get Help now and the suggestion list on a 2000 ms
\* timer; without, the errorMessage element.
showError_AllAtOnce(d, ns, cap, same) ==
    IF enhanced
    THEN /\ Len(ns.container) + 2 <= cap
         /\ notifications' = showNotification(showNotification(ns, "error", 2, same),
                                              "info", 0, same)
         /\ suggestionTimers' = suggestionTimers
         /\ dom' = d
    ELSE /\ notifications' = ns
         /\ suggestionTimers' = suggestionTimers
         /\ dom' = [d EXCEPT !.errorMessage = TRUE]

showError(d, ns, cap, same) ==
    IF enhanced
    THEN /\ Len(ns.container) + 1 <= cap
         /\ suggestionTimers < MaxSuggestionTimers
         /\ notifications' = showNotification(ns, "error", 2, same)
         /\ suggestionTimers' = suggestionTimers + 1
         /\ dom' = d
    ELSE /\ notifications' = ns
         /\ suggestionTimers' = suggestionTimers
         /\ dom' = [d EXCEPT !.errorMessage = TRUE]

---------------------------------------------------------------------------
(* Orchestrator: file selection *)

allowedTypes == {"text/plain"}

TypeRejected_CaseSensitive(file) ==
    file.type \notin allowedTypes /\ ~endsWith(file.name, TxtSuffix)

\* part_000:110
TypeRejected(file) ==
    file.type \notin allowedTypes /\ ~endsWith(toLowerCase(file.name), TxtSuffix)

SizeRejected_AtLimit(file) == file.size >= maxSize

\* part_000:117
SizeRejected(file) == file.size > maxSize

\* What processFile decides for a file.
processFileOutcome(file) ==
    IF TypeRejected(file) THEN "type"
    ELSE IF SizeRejected(file) THEN "size"
    ELSE "stored"

\* part_000:107 processFile(file); ns is the notification state the
\* listeners that ran before have left.
processFile(file, ns, cap, same) ==
    IF processFileOutcome(file) = "stored"
    THEN /\ dom' = [dom EXCEPT !.fileInfo = TRUE, !.generateSection = TRUE]
         /\ selectedFile' = file
         /\ notifications' = ns
         /\ UNCHANGED suggestionTimers
    ELSE /\ showError(dom, ns, cap, same)
         /\ UNCHANGED selectedFile

\* handleDrop: the dropped file goes to processFile alone.
HandleDrop(file) ==
    /\ processFile(file, notifications, MaxNotifications, FALSE)
    /\ lastOp' = [op |-> "drop", outcome |-> processFileOutcome(file),
                  stale |-> FALSE, file |-> file, progress |-> NoProgress]
    /\ UNCHANGED <<enhanced, networkError, welcome, pm,
                   currentFileId, processCheckInterval, activeTimers,
                   nextTimer, statusInFlight, generating, successTimers, currentStep,
                   errorLog, consecutiveFailures, dmVars>>

\* A change event of the file input runs handleFileSelect and, before it,
\* the listener EnhancedUX registered when enhanced-ux.js was evaluated.
\* same says whether Date.now() gives one millisecond throughout the event.
HandleFileSelect(file, same) ==
    /\ IF enhanced
       THEN /\ Len(notifications.container) + 3 <= MaxPickNotifications
            /\ currentStep' = IF validateFileWithFeedback(file) THEN 2 ELSE currentStep
            /\ processFile(file, validationNotifications(notifications, file, same),
                           MaxPickNotifications, same)
       ELSE /\ processFile(file, notifications, MaxNotifications, FALSE)
            /\ UNCHANGED currentStep
    /\ lastOp' = [op |-> "pick", outcome |-> processFileOutcome(file),
                  stale |-> FALSE, file |-> file, progress |-> NoProgress]
    /\ UNCHANGED <<enhanced, networkError, welcome, pm,
                   currentFileId, processCheckInterval, activeTimers,
                   nextTimer, statusInFlight, generating, successTimers, errorLog,
                   consecutiveFailures, dmVars>>

---------------------------------------------------------------------------
(* Notification timers and keys *)

\* The 2000 ms timer of showDetailedError: every suggestion list of
\* getContextualErrorMessage has three entries, so the notification is shown.
SuggestionTimer ==
    /\ suggestionTimers > 0
    /\ Len(notifications.container) < MaxPickNotifications
    /\ suggestionTimers' = suggestionTimers - 1
    /\ notifications' = showNotification(notifications, "info", 0, FALSE)
    /\ lastOp' = Did("suggestions", "")
    /\ UNCHANGED <<enhanced, networkError, welcome, pm, orchVars, currentStep, errorLog, dmVars>>

\* enhanced-ux.js:192-194: the i-th pending 5000 ms timer fires.
AutoHide(i) ==
    /\ i \in 1..Len(notifications.timers)
    /\ notifications' =
          [hideNotification(notifications, notifications.timers[i])
              EXCEPT !.timers = RemoveAt(notifications.timers, i)]
    /\ lastOp' = Did("autohide", "")
    /\ UNCHANGED <<enhanced, networkError, welcome, pm,
                   orchVars, suggestionTimers, currentStep, errorLog, dmVars>>

\* enhanced-ux.js:179: the close control of element k.
CloseNotification(k) ==
    /\ k \in 1..Len(notifications.container)
    /\ notifications' = hideNotification(notifications, notifications.container[k].id)
    /\ lastOp' = Did("close", "")
    /\ UNCHANGED <<enhanced, networkError, welcome, pm,
                   orchVars, suggestionTimers, currentStep, errorLog, dmVars>>

\* hideNotification for every entry of the list from the i-th on.
RECURSIVE hideAll(_, _)
hideAll(ns, i) ==
    IF i > Len(ns.list) THEN ns
    ELSE hideAll(hideNotification(ns, ns.list[i].id), i + 1)

\* enhanced-ux.js:557-561, the Escape key.
Escape ==
    /\ notifications.list # <<>>
    /\ notifications' = hideAll(notifications, 1)
    /\ lastOp' = Did("escape", "")
    /\ UNCHANGED <<enhanced, networkError, welcome, pm,
                   orchVars, suggestionTimers, currentStep, errorLog, dmVars>>

\* The 300 ms timer of hideNotification for element k.
RemoveNotification(k) ==
    /\ k \in 1..Len(notifications.container)
    /\ notifications.container[k].hiding
    /\ notifications' = removeNotification(notifications, k)
    /\ lastOp' = Did("removed", notifications.container[k].type)
    /\ UNCHANGED <<enhanced, networkError, welcome, pm,
                   orchVars, suggestionTimers, currentStep, errorLog, dmVars>>

---------------------------------------------------------------------------
(* Orchestrator: upload, generation trigger, polling, reset *)

Statuses == {"processing", "completed", "failed"}
Progresses == {NoProgress, 100}

\* What the backend can answer to a request: the fetch is rejected, the
\* response is not ok, or it is ok.
FailureKinds == {"rejected", "non2xx"}
Failure(kind) == [kind |-> kind, status |-> "", progress |-> NoProgress]
StatusResponses ==
    {Failure(k) : k \in FailureKinds}
        \cup [kind : {"ok"}, status : Statuses, progress : Progresses]

resetGenerateButton_StaysDisabled(d) == [d EXCEPT !.progressContainer = FALSE]

\* part_000:295
resetGenerateButton(d) ==
    [d EXCEPT !.generateButton = [disabled |-> FALSE, display |-> TRUE],
              !.progressContainer = FALSE]

\* part_000:184 (the DOM part; the caller shows its info notification)
showProgress(d) ==
    [d EXCEPT !.progressContainer = TRUE,
              !.generateButton.display = FALSE,
              !.progressFill = 10]

\* updateProgress keeping the larger of the old and the new width.
updateProgress_NeverLower(d, response) ==
    LET progress == IF response.progress = NoProgress THEN 0 ELSE response.progress
    IN [d EXCEPT !.progressFill = IF progress > @ THEN progress ELSE @]

\* part_000:232: status.progress || 0 becomes the width of progressFill,
\* `${progress}%`, with no test of its range. A negative percentage is not a
\* value of the width property, and the style object ignores the assignment
\* of a text that is not one, so the width stays what it was.
updateProgress(d, response) ==
    [d EXCEPT !.progressFill = IF response.progress = NoProgress THEN 0
                               ELSE IF response.progress < 0 THEN @
                               ELSE response.progress]

\* part_000:247: the section, the link, and then the success notification
\* of EnhancedUX or, without it, showSuccess and its 3000 ms timer.
showDownloadSection(d, ns) ==
    LET shown == [d EXCEPT !.downloadSection = TRUE,
                           !.downloadWord = [href |-> currentFileId, display |-> TRUE]]
    IN IF enhanced
       THEN /\ Len(ns.container) + 1 <= MaxNotifications
            /\ notifications' = showNotification(ns, "success", 1, FALSE)
            /\ dom' = shown
            /\ UNCHANGED successTimers
       ELSE /\ successTimers' = TRUE
            /\ dom' = [shown EXCEPT !.successMessage = TRUE]
            /\ notifications' = ns

clearInterval_Ignored(timers, handle) == timers

\* window.clearInterval: the handle leaves the table of live timers.
clearInterval(timers, handle) == timers \ {handle}

\* part_000:198. The tick itself is PollTick.
\* window.setInterval returns a handle never returned before; MaxTimers
\* bounds the pollers one behaviour starts.
startProcessMonitoring ==
    /\ nextTimer <= MaxTimers
    /\ activeTimers' =
          (IF processCheckInterval # NoTimer
             THEN clearInterval(activeTimers, processCheckInterval)
             ELSE activeTimers) \cup {nextTimer}
    /\ processCheckInterval' = nextTimer
    /\ nextTimer' = nextTimer + 1

generateFailed_KeepsButton(kind, same) ==
    /\ lastLogged(catchLog(wrapperLog(errorLog, kind), "Generation Error")) <= MaxLogged
    /\ errorLog' = catchLog(wrapperLog(errorLog, kind), "Generation Error")
    /\ showError(dom, fetchWrapper(notifications, kind), MaxNotifications, same)

\* The catch block of handleGenerate after a failed upload or trigger:
\* logError, showError(message, 'processing'), resetGenerateButton.
generateFailed(kind, same) ==
    /\ lastLogged(catchLog(wrapperLog(errorLog, kind), "Generation Error")) <= MaxLogged
    /\ errorLog' = catchLog(wrapperLog(errorLog, kind), "Generation Error")
    /\ showError(resetGenerateButton(dom), fetchWrapper(notifications, kind),
                 MaxNotifications, same)

\* handleGenerate up to its first await. Every caller goes through a click
\* of generateButton, which a disabled button does not deliver.
HandleGenerate ==
    /\ ~dom.generateButton.disabled
    /\ IF selectedFile = NoFile
       THEN /\ showError(dom, notifications, MaxNotifications, FALSE)
            /\ lastOp' = Did("generate", "nofile")
            /\ UNCHANGED generating
       ELSE /\ Len(generating) < MaxGenerate
            /\ dom' = [dom EXCEPT !.generateButton.disabled = TRUE]
            /\ generating' = Append(generating, "upload")
            /\ lastOp' = Did("generate", "upload")
            /\ UNCHANGED <<notifications, suggestionTimers>>
    /\ UNCHANGED <<enhanced, networkError, welcome, pm,
                   currentFileId, processCheckInterval, selectedFile,
                   activeTimers, nextTimer, statusInFlight, successTimers, currentStep,
                   errorLog, consecutiveFailures, dmVars>>

\* The response of POST /api/upload reaches activation i; same says whether
\* the catch block still reads the millisecond of the fetch wrapper.
UploadResolve(i, kind, fileId, same) ==
    /\ i \in 1..Len(generating)
    /\ generating[i] = "upload"
    /\ IF kind = "ok"
       THEN /\ currentFileId' = fileId
            /\ generating' = <<"generate">> \o RemoveAt(generating, i)
            /\ UNCHANGED <<dom, notifications, suggestionTimers, errorLog>>
       ELSE /\ generateFailed(kind, same)
            /\ generating' = RemoveAt(generating, i)
            /\ UNCHANGED currentFileId
    /\ lastOp' = Did("upload", kind)
    /\ UNCHANGED <<enhanced, networkError, welcome, pm,
                   processCheckInterval, selectedFile, activeTimers,
                   nextTimer, statusInFlight, successTimers, currentStep,
                   consecutiveFailures, dmVars>>

\* The response of POST /api/generate/{file_id} reaches activation i.
GenerateResolve(i, kind, same) ==
    /\ i \in 1..Len(generating)
    /\ generating[i] = "generate"
    /\ generating' = RemoveAt(generating, i)
    /\ IF kind = "ok"
       THEN /\ dom' = showProgress(dom)
            /\ IF enhanced
               THEN /\ Len(notifications.container) < MaxNotifications
                    /\ notifications' = showNotification(notifications, "info", 0, FALSE)
               ELSE UNCHANGED notifications
            /\ startProcessMonitoring
            /\ consecutiveFailures' = 0
            /\ UNCHANGED <<suggestionTimers, errorLog>>
       ELSE /\ generateFailed(kind, same)
            /\ UNCHANGED <<processCheckInterval, activeTimers, nextTimer,
                           consecutiveFailures>>
    /\ lastOp' = Did("trigger", kind)
    /\ UNCHANGED <<enhanced, networkError, welcome, pm, currentFileId, selectedFile, statusInFlight,
                   successTimers, currentStep, dmVars>>

\* One tick of the interval: the callback runs up to its await.
PollTick(timer) ==
    /\ timer \in activeTimers
    /\ Len(statusInFlight) < MaxInFlight
    /\ statusInFlight' = Append(statusInFlight, timer)
    /\ lastOp' = Did("tick", "")
    /\ UNCHANGED <<enhanced, networkError, welcome, pm,
                   currentFileId, processCheckInterval, selectedFile, dom,
                   activeTimers, nextTimer, generating, successTimers,
                   consecutiveFailures, uxVars, dmVars>>

\* The rest of the callback for request i once its response is there.
PollResolve(i, response, same) ==
    /\ i \in 1..Len(statusInFlight)
    /\ statusInFlight' = RemoveAt(statusInFlight, i)
    /\ IF response.kind = "ok"
       THEN CASE response.status = "completed" ->
                   /\ activeTimers' = clearInterval(activeTimers, processCheckInterval)
                   /\ showDownloadSection(updateProgress(dom, response), notifications)
                   /\ UNCHANGED <<suggestionTimers, errorLog>>
              [] response.status = "failed" ->
                   /\ activeTimers' = clearInterval(activeTimers, processCheckInterval)
                   /\ showError(resetGenerateButton(updateProgress(dom, response)),
                                notifications, MaxNotifications, FALSE)
                   /\ UNCHANGED <<successTimers, errorLog>>
              [] OTHER ->
                   /\ dom' = updateProgress(dom, response)
                   /\ UNCHANGED <<activeTimers, notifications, suggestionTimers,
                                  successTimers, errorLog>>
       ELSE /\ lastLogged(catchLog(wrapperLog(errorLog, response.kind),
                                    "Status Check Error")) <= MaxLogged
            /\ errorLog' = catchLog(wrapperLog(errorLog, response.kind),
                                    "Status Check Error")
            /\ activeTimers' = clearInterval(activeTimers, processCheckInterval)
            /\ showError(resetGenerateButton(dom),
                         fetchWrapper(notifications, response.kind), MaxNotifications,
                         same)
            /\ UNCHANGED successTimers
    /\ consecutiveFailures' =
          IF response.kind = "ok" THEN 0
          ELSE IF consecutiveFailures < 3 THEN consecutiveFailures + 1 ELSE 3
    /\ lastOp' = [op |-> "poll",
                  outcome |-> IF response.kind = "ok" THEN response.status
                              ELSE response.kind,
                  stale |-> statusInFlight[i] \notin activeTimers,
                  file |-> NoFile,
                  progress |-> response.progress]
    /\ UNCHANGED <<enhanced, networkError, welcome, pm,
                   currentFileId, processCheckInterval, selectedFile,
                   nextTimer, generating, currentStep, dmVars>>

\* A 3000 ms timer of showSuccess fires: hideSuccess. It may or may not
\* have been the last one pending.
SuccessTimer ==
    /\ successTimers
    /\ successTimers' \in BOOLEAN
    /\ dom' = [dom EXCEPT !.successMessage = FALSE]
    /\ lastOp' = Did("hideSuccess", "")
    /\ UNCHANGED <<enhanced, networkError, welcome, pm,
                   currentFileId, processCheckInterval, selectedFile,
                   activeTimers, nextTimer, statusInFlight, generating,
                   consecutiveFailures, uxVars, dmVars>>

\* The session status a reset starts from, as far as the page shows it.
resetFrom ==
    IF dom.downloadSection THEN "Completed"
    ELSE IF lastOp.op = "poll" /\ lastOp.outcome \in FailureKinds \cup {"failed"}
         THEN "Failed"
    ELSE "other"

\* part_000:283-292: the DOM part of handleReset, hideError and hideSuccess
\* included.
resetDom(d) ==
    [resetGenerateButton(d) EXCEPT !.fileInfo = FALSE,
                                   !.generateSection = FALSE,
                                   !.downloadSection = FALSE,
                                   !.errorMessage = FALSE,
                                   !.successMessage = FALSE]

HandleReset_KeepsTimer ==
    /\ currentFileId' = NoId
    /\ selectedFile' = NoFile
    /\ processCheckInterval' = NoTimer
    /\ dom' = resetDom(dom)
    /\ lastOp' = Did("reset", resetFrom)
    /\ UNCHANGED <<enhanced, networkError, welcome, pm,
                   activeTimers, nextTimer, statusInFlight, generating,
                   successTimers, consecutiveFailures, uxVars, dmVars>>

\* part_000:273
HandleReset ==
    /\ currentFileId' = NoId
    /\ selectedFile' = NoFile
    /\ activeTimers' = IF processCheckInterval # NoTimer
                         THEN clearInterval(activeTimers, processCheckInterval)
                         ELSE activeTimers
    /\ processCheckInterval' = NoTimer
    /\ dom' = resetDom(dom)
    /\ lastOp' = Did("reset", resetFrom)
    /\ UNCHANGED <<enhanced, networkError, welcome, pm,
                   nextTimer, statusInFlight, generating, successTimers,
                   consecutiveFailures, uxVars, dmVars>>

---------------------------------------------------------------------------
(* DownloadManager *)

DownloadOutcomes == {"ok", "non2xx", "rejected", "blob"}

\* download.js:253 showMessage: the downloadMessage element and its
\* 5000 ms hide timer.
showMessage(manager, type) == [manager EXCEPT !.message = type]

\* download.js:141 setDownloadButtonState; the timers of 'completed' and
\* 'error' are added by scheduleRevert.
setDownloadButtonState(b, state) ==
    CASE state = "downloading" -> [b EXCEPT !.class = "downloading", !.disabled = TRUE]
      [] state = "completed" -> [b EXCEPT !.class = "completed", !.disabled = FALSE]
      [] state = "error" -> [b EXCEPT !.class = "error", !.disabled = FALSE]
      [] OTHER -> [b EXCEPT !.class = "normal", !.disabled = FALSE]

\* setDownloadButtonState without the setTimeout of its two cases.
scheduleRevert_NoTimer(timers, fileType) == timers

scheduleRevert(timers, fileType) == [timers EXCEPT ![fileType] = @ + 1]

\* download.js:18
InitializeDownloads(processId) ==
    /\ dm' = [dm EXCEPT !.currentProcessId = processId,
                        !.downloadSection = TRUE,
                        !.handlers = TRUE]
    /\ lastOp' = Did("initializeDownloads", processId)
    /\ UNCHANGED <<enhanced, networkError, welcome, pm,
                   orchVars, saveAs, uxVars, button, downloadsInFlight,
                   revertTimers, messageTimers>>

\* download.js:60 downloadFile(fileType) up to its await. click says that the
\* call is the button's onclick, which needs the handler of
\* setupDownloadHandlers and a button that is not disabled; any other call
\* is a direct one of window.downloadManager.
DownloadFile(fileType, click) ==
    /\ click => dm.handlers /\ ~button[fileType].disabled
    /\ IF dm.currentProcessId = NoId
       THEN /\ messageTimers < MaxMessageTimers
            /\ dm' = showMessage(dm, "error")
            /\ messageTimers' = messageTimers + 1
            /\ lastOp' = Did(IF click THEN "click" ELSE "call", "noid")
            /\ UNCHANGED <<button, downloadsInFlight>>
       ELSE /\ downloadsInFlight[fileType] < MaxDownloads
            /\ button' = [button EXCEPT
                             ![fileType] = setDownloadButtonState(@, "downloading")]
            /\ downloadsInFlight' = [downloadsInFlight EXCEPT ![fileType] = @ + 1]
            /\ lastOp' = Did(IF click THEN "click" ELSE "call", fileType)
            /\ UNCHANGED <<dm, messageTimers>>
    /\ UNCHANGED <<enhanced, networkError, welcome, pm, orchVars, saveAs, uxVars, revertTimers>>

\* The rest of downloadFile once the response (and its blob) is there.
DownloadResolve(fileType, outcome) ==
    /\ downloadsInFlight[fileType] > 0
    /\ revertTimers[fileType] < MaxRevertTimers
    /\ messageTimers < MaxMessageTimers
    /\ Len(fetchWrapper(notifications, outcome).container) <= MaxNotifications
    /\ downloadsInFlight' = [downloadsInFlight EXCEPT ![fileType] = @ - 1]
    /\ button' = [button EXCEPT
                     ![fileType] = setDownloadButtonState(
                                       @, IF outcome = "ok" THEN "completed" ELSE "error")]
    /\ revertTimers' = scheduleRevert(revertTimers, fileType)
    /\ dm' = showMessage(dm, IF outcome = "ok" THEN "success" ELSE "error")
    /\ messageTimers' = messageTimers + 1
    /\ notifications' = fetchWrapper(notifications, outcome)
    /\ lastLogged(wrapperLog(errorLog, outcome)) <= MaxLogged
    /\ errorLog' = wrapperLog(errorLog, outcome)
    /\ lastOp' = Did("downloaded", outcome)
    /\ UNCHANGED <<enhanced, networkError, welcome, pm,
                   orchVars, saveAs, suggestionTimers, currentStep>>

\* A timer of setDownloadButtonState fires: resetDownloadButton(fileType).
RevertTimer(fileType) ==
    /\ revertTimers[fileType] > 0
    /\ revertTimers' = [revertTimers EXCEPT ![fileType] = @ - 1]
    /\ button' = [button EXCEPT ![fileType] = setDownloadButtonState(@, "normal")]
    /\ lastOp' = Did("revert", fileType)
    /\ UNCHANGED <<enhanced, networkError, welcome, pm,
                   orchVars, saveAs, uxVars, dm, downloadsInFlight, messageTimers>>

\* A timer of showMessage fires: the message element is hidden.
MessageTimer ==
    /\ messageTimers > 0
    /\ messageTimers' = messageTimers - 1
    /\ dm' = [dm EXCEPT !.message = "none"]
    /\ lastOp' = Did("hideMessage", "")
    /\ UNCHANGED <<enhanced, networkError, welcome, pm,
                   orchVars, saveAs, uxVars, button, downloadsInFlight, revertTimers>>

\* download.js:220 updateDownloadAvailability(status)
UpdateDownloadAvailability(wordReady, pdfReady) ==
    /\ button' = [button EXCEPT !["word"].disabled = ~wordReady,
                                !["word"].unavailable = ~wordReady,
                                !["pdf"].disabled = ~pdfReady,
                                !["pdf"].unavailable = ~pdfReady]
    /\ lastOp' = Did("availability", "")
    /\ UNCHANGED <<enhanced, networkError, welcome, pm,
                   orchVars, saveAs, uxVars, dm, downloadsInFlight, revertTimers,
                   messageTimers>>

\* download.js:276 reset()
DownloadManagerReset ==
    /\ dm' = [dm EXCEPT !.currentProcessId = NoId,
                        !.downloadSection = FALSE,
                        !.message = "none"]
    /\ button' = [t \in ArtifactTypes |-> setDownloadButtonState(button[t], "normal")]
    /\ lastOp' = Did("dmReset", "")
    /\ UNCHANGED <<enhanced, networkError, welcome, pm,
                   orchVars, saveAs, uxVars, downloadsInFlight, revertTimers,
                   messageTimers>>

---------------------------------------------------------------------------
(* DownloadManager.extractFilename *)
(* A header is the sequence of its tokens: the word filename is one token, *)
(* every punctuation character is one token, any other run of characters  *)
(* is one token.                                                           *)

MaxParams == 2

\* response.headers.get gives null for an absent header; null and the empty
\* string are both falsy.
NoHeader == <<>>
Quotes == {"'", "\""}

Dispositions == { <<"attachment">>, <<"inline">> }
ParamNames == { <<"filename">>, <<"filename", "*">>, <<"name">> }
ParamValues ==
    { <<"minutes_2024", ".", "docx">>,
      <<"UTF-8", "'", "'", "report", ".", "pdf">>,
      <<"a", ";", "b">>,
      <<>> }
Quoted(q, v) == IF q = "" THEN v ELSE <<q>> \o v \o <<q>>
Params ==
    { n \o <<"=">> \o Quoted(q, v) :
          n \in ParamNames, q \in Quotes \cup {""}, v \in ParamValues }

\* The headers of a disposition type and at most n parameters.
RECURSIVE HeadersOf(_)
HeadersOf(n) ==
    IF n = 0 THEN Dispositions
    ELSE HeadersOf(n - 1)
           \cup { h \o <<";", " ">> \o p : h \in HeadersOf(n - 1), p \in Params }

Headers == {NoHeader} \cup HeadersOf(MaxParams)

\* new Date().toISOString().split('T')[0]
Dates == {"2024-01-15", "2024-12-31"}

\* The least index from `from` on whose token is in S, Len(h) + 1 if none.
FirstIndex(h, from, S) ==
    LET ks == {k \in from..Len(h) : h[k] \in S}
    IN IF ks = {} THEN Len(h) + 1
       ELSE CHOOSE k \in ks : \A k2 \in ks : k <= k2

\* String.prototype.includes
includes(h, needle) ==
    \E i \in 1..(Len(h) - Len(needle) + 1) :
        SubSeq(h, i, i + Len(needle) - 1) = needle

\* Where /filename[^;=\n]*=/ can match: a filename token whose next ; or =
\* is an =.
matchStarts(h) ==
    {i \in 1..Len(h) :
        /\ h[i] = "filename"
        /\ LET j == FirstIndex(h, i + 1, {";", "="})
           IN j <= Len(h) /\ h[j] = "="}

\* Group 1 of /filename[^;=\n]*=((['"]).*?\2|[^;\n]*)/ at the leftmost
\* match: a quote up to the next same quote, or else everything up to the
\* next semicolon.
matchGroup(h) ==
    LET i == CHOOSE k \in matchStarts(h) : \A k2 \in matchStarts(h) : k <= k2
        j == FirstIndex(h, i + 1, {"="})
        close == IF j + 1 <= Len(h) /\ h[j + 1] \in Quotes
                 THEN FirstIndex(h, j + 2, {h[j + 1]})
                 ELSE Len(h) + 1
    IN IF close <= Len(h)
       THEN SubSeq(h, j + 1, close)
       ELSE SubSeq(h, j + 1, FirstIndex(h, j + 1, {";"}) - 1)

\* replace(/['"]/g, '')
stripQuotes(s) == SelectSeq(s, LAMBDA c : c \notin Quotes)

defaultFilename(fileType, today) ==
    <<"meeting_minutes_", today, ".", IF fileType = "word" THEN "docx" ELSE "pdf">>

\* download.js:104
extractFilename(contentDisposition, fileType, today) ==
    IF /\ contentDisposition # NoHeader
       /\ includes(contentDisposition, <<"filename", "=">>)
       /\ matchStarts(contentDisposition) # {}
       /\ matchGroup(contentDisposition) # <<>>
    THEN stripQuotes(matchGroup(contentDisposition))
    ELSE defaultFilename(fileType, today)

NoSave == [contentDisposition |-> NoHeader, fileType |-> "none", today |-> "none",
           filename |-> <<>>]

\* download.js:81-82: the header of the response goes through extractFilename.
ExtractFilename ==
    /\ saveAs.filename = <<>>
    /\ saveAs' = [saveAs EXCEPT !.filename =
                     extractFilename(saveAs.contentDisposition, saveAs.fileType,
                                     saveAs.today)]
    /\ lastOp' = Did("extractFilename", saveAs.fileType)
    /\ UNCHANGED <<enhanced, networkError, welcome, pm,
                   orchVars, uxVars, dm, button, downloadsInFlight,
                   revertTimers, messageTimers>>

---------------------------------------------------------------------------
(* ProgressManager (window.progressManager). It writes the progress        *)
(* container and the progress bar of the orchestrator's page.              *)

\* enhanced-ux.js:658-664, the constructor.
NoProgressManager ==
    [currentProgress |-> 0, updateInterval |-> NoTimer, timers |-> {}, next |-> 1,
     checks |-> 0, hideTimers |-> 0]

\* What /api/process/{id}/status can answer: a rejected fetch or a body
\* that is not JSON, or the fields success, status and progress.
ProgressAnswers ==
    {[kind |-> "rejected", success |-> FALSE, status |-> "", progress |-> 0]}
        \cup [kind : {"ok"}, success : BOOLEAN, status : {"processing", "completed", "error"},
              progress : {50, 100}]

\* enhanced-ux.js:705 updateProgress(percentage, message)
pmUpdateProgress(p, percentage) ==
    [p EXCEPT !.currentProgress = IF percentage < 100 THEN percentage ELSE 100]

\* enhanced-ux.js:670 startProgress(processId)
pmStartProgress(p) ==
    [p EXCEPT !.currentProgress = 5,
              !.updateInterval = p.next,
              !.timers = @ \cup {p.next},
              !.next = @ + 1]

\* enhanced-ux.js:773 clearInterval()
pmClearInterval(p) ==
    IF p.updateInterval # NoTimer
    THEN [p EXCEPT !.timers = clearInterval(@, p.updateInterval),
                   !.updateInterval = NoTimer]
    ELSE p

\* enhanced-ux.js:746 completeProgress(message), with its 2000 ms timer
pmCompleteProgress(p) ==
    [pmClearInterval(pmUpdateProgress(p, 100)) EXCEPT !.hideTimers = @ + 1]

\* enhanced-ux.js:760 errorProgress(message)
pmErrorProgress(p) == pmClearInterval(pmUpdateProgress(p, p.currentProgress))

\* The page after ProgressManager has set the width of the bar.
pmDom(d, p) == [d EXCEPT !.progressFill = p.currentProgress]

StartProgress ==
    /\ pm.next <= MaxProgressTimers
    /\ pm' = pmStartProgress(pm)
    /\ dom' = [pmDom(dom, pm') EXCEPT !.progressContainer = TRUE]
    /\ lastOp' = Did("startProgress", "")
    /\ UNCHANGED <<enhanced, networkError, welcome, currentFileId, processCheckInterval,
                   selectedFile, activeTimers, nextTimer, statusInFlight, generating,
                   successTimers, consecutiveFailures, uxVars, dmVars>>

\* A tick of an interval of startProgress: checkProgressStatus up to its
\* await.
ProgressTick(timer) ==
    /\ timer \in pm.timers
    /\ pm.checks < MaxProgressChecks
    /\ pm' = [pm EXCEPT !.checks = @ + 1]
    /\ lastOp' = Did("progressTick", "")
    /\ UNCHANGED <<enhanced, networkError, welcome, orchVars, uxVars, dmVars>>

\* enhanced-ux.js:722 checkProgressStatus once the answer is there.
ProgressResolve(answer) ==
    /\ pm.checks > 0
    /\ LET p == [pm EXCEPT !.checks = @ - 1]
           updated == pmUpdateProgress(p, answer.progress)
       IN /\ IF answer.kind = "rejected"
             THEN pm' = pmErrorProgress(p)
             ELSE IF ~answer.success
             THEN pm' = p
             ELSE IF answer.progress >= 100 \/ answer.status = "completed"
             THEN /\ p.hideTimers < MaxHideTimers
                  /\ pm' = pmCompleteProgress(updated)
             ELSE IF answer.status = "error"
             THEN pm' = pmErrorProgress(updated)
             ELSE pm' = updated
          /\ dom' = pmDom(dom, pm')
    /\ lastOp' = Did("progressStatus", IF answer.kind = "rejected" THEN "rejected"
                                        ELSE answer.status)
    /\ UNCHANGED <<enhanced, networkError, welcome, currentFileId, processCheckInterval,
                   selectedFile, activeTimers, nextTimer, statusInFlight, generating,
                   successTimers, consecutiveFailures, uxVars, dmVars>>

\* A call of completeProgress or errorProgress by the page.
CompleteProgress ==
    /\ pm.hideTimers < MaxHideTimers
    /\ pm' = pmCompleteProgress(pm)
    /\ dom' = pmDom(dom, pm')
    /\ lastOp' = Did("completeProgress", "")
    /\ UNCHANGED <<enhanced, networkError, welcome, currentFileId, processCheckInterval,
                   selectedFile, activeTimers, nextTimer, statusInFlight, generating,
                   successTimers, consecutiveFailures, uxVars, dmVars>>

ErrorProgress ==
    /\ pm' = pmErrorProgress(pm)
    /\ dom' = pmDom(dom, pm')
    /\ lastOp' = Did("errorProgress", "")
    /\ UNCHANGED <<enhanced, networkError, welcome, currentFileId, processCheckInterval,
                   selectedFile, activeTimers, nextTimer, statusInFlight, generating,
                   successTimers, consecutiveFailures, uxVars, dmVars>>

\* enhanced-ux.js:693 hideProgress(), called by the page (timer FALSE) or by
\* the 2000 ms timer of completeProgress.
HideProgress(timer) ==
    /\ timer => pm.hideTimers > 0
    /\ pm' = [pmClearInterval(pm) EXCEPT
                 !.hideTimers = IF timer THEN @ - 1 ELSE @]
    /\ dom' = [dom EXCEPT !.progressContainer = FALSE]
    /\ lastOp' = Did("hideProgress", IF timer THEN "timer" ELSE "call")
    /\ UNCHANGED <<enhanced, networkError, welcome, currentFileId, processCheckInterval,
                   selectedFile, activeTimers, nextTimer, statusInFlight, generating,
                   successTimers, consecutiveFailures, uxVars, dmVars>>

\* enhanced-ux.js:783 reset()
ProgressReset ==
    /\ pm' = [pmClearInterval(pm) EXCEPT !.currentProgress = 0]
    /\ dom' = [dom EXCEPT !.progressContainer = FALSE, !.progressFill = 0]
    /\ lastOp' = Did("progressReset", "")
    /\ UNCHANGED <<enhanced, networkError, welcome, currentFileId, processCheckInterval,
                   selectedFile, activeTimers, nextTimer, statusInFlight, generating,
                   successTimers, consecutiveFailures, uxVars, dmVars>>

---------------------------------------------------------------------------
(* Initial state: the page after DOMContentLoaded *)

InitDom ==
    [ fileInfo |-> FALSE,
      generateSection |-> FALSE,
      downloadSection |-> FALSE,
      progressContainer |-> FALSE,
      progressFill |-> 0,
      generateButton |-> [disabled |-> FALSE, display |-> TRUE],
      downloadWord |-> [href |-> NoId, display |-> FALSE],
      errorMessage |-> FALSE,
      successMessage |-> FALSE ]

InitButton == [t \in ArtifactTypes |->
                 [class |-> "normal", disabled |-> FALSE, unavailable |-> FALSE]]

InitPage ==
    /\ currentFileId = NoId
    /\ processCheckInterval = NoTimer
    /\ selectedFile = NoFile
    /\ dom = InitDom
    /\ activeTimers = {}
    /\ nextTimer = 1
    /\ statusInFlight = <<>>
    /\ generating = <<>>
    /\ successTimers = FALSE
    /\ notifications = NoNotifications
    /\ suggestionTimers = 0
    /\ currentStep = 1
    /\ dm = [currentProcessId |-> NoId, downloadSection |-> FALSE,
             handlers |-> FALSE, message |-> "none"]
    /\ button = InitButton
    /\ downloadsInFlight = [t \in ArtifactTypes |-> 0]
    /\ revertTimers = [t \in ArtifactTypes |-> 0]
    /\ messageTimers = 0
    /\ pm = NoProgressManager
    /\ consecutiveFailures = 0
    /\ lastOp = NoOp

\* The page of a returning visitor once the timer of initializeEnhancedUX
\* has run: the item is set and no guide is shown.
Welcomed == [visited |-> TRUE, timer |-> FALSE, startups |-> 1, shown |-> 0]

\* The orchestrator and DownloadManager alone on the page.
Init ==
    /\ enhanced = FALSE /\ InitPage /\ saveAs = NoSave
    /\ networkError = NoNetworkError /\ errorLog = <<>> /\ welcome = Welcomed

\* The page with EnhancedUX and ErrorHandler.
InitEnhanced ==
    /\ enhanced = TRUE /\ InitPage /\ saveAs = NoSave
    /\ networkError = NoNetworkError /\ errorLog = <<>> /\ welcome = Welcomed

\* Whether two readings of Date.now() in one event give the same
\* millisecond; the readings are used on the enhanced page only.
Readings == IF enhanced THEN BOOLEAN ELSE {FALSE}

---------------------------------------------------------------------------
(* The session: selection, generation, polling, reset *)

Next ==
    \/ \E file \in SessionFiles : HandleDrop(file)
    \/ HandleGenerate
    \/ \E i \in 1..MaxGenerate, kind \in {"ok"} \cup FailureKinds, fileId \in UploadIds,
          same \in Readings :
          UploadResolve(i, kind, fileId, same)
    \/ \E i \in 1..MaxGenerate, kind \in {"ok"} \cup FailureKinds, same \in Readings :
          GenerateResolve(i, kind, same)
    \/ \E timer \in 1..MaxTimers : PollTick(timer)
    \/ \E i \in 1..MaxInFlight, response \in StatusResponses, same \in Readings :
          PollResolve(i, response, same)
    \/ SuccessTimer
    \/ HandleReset

Spec == Init /\ [][Next]_vars

---------------------------------------------------------------------------
(* The session with a backend that reports any progress *)

\* The progress field of a status response: missing, negative, inside
\* 0..100 and above 100.
WideProgresses == {NoProgress, -5, 40, 100, 150}
ProgressResponses ==
    {Failure(k) : k \in FailureKinds}
        \cup [kind : {"ok"}, status : Statuses, progress : WideProgresses]

NextProgress ==
    \/ \E file \in SessionFiles : HandleDrop(file)
    \/ HandleGenerate
    \/ \E i \in 1..MaxGenerate, kind \in {"ok"} \cup FailureKinds, fileId \in UploadIds :
          UploadResolve(i, kind, fileId, FALSE)
    \/ \E i \in 1..MaxGenerate, kind \in {"ok"} \cup FailureKinds :
          GenerateResolve(i, kind, FALSE)
    \/ \E timer \in 1..MaxTimers : PollTick(timer)
    \/ \E i \in 1..MaxInFlight, response \in ProgressResponses :
          PollResolve(i, response, FALSE)
    \/ SuccessTimer
    \/ HandleReset

SpecProgress == Init /\ [][NextProgress]_vars

---------------------------------------------------------------------------
(* The session on the enhanced page. Error notifications stay until they   *)
(* are dismissed, so MaxNotifications bounds the failures of one behaviour. *)

NextEnhanced ==
    \/ \E file \in SessionFiles : HandleDrop(file)
    \/ HandleGenerate
    \/ \E i \in 1..MaxGenerate, kind \in {"ok"} \cup FailureKinds, fileId \in UploadIds,
          same \in Readings :
          UploadResolve(i, kind, fileId, same)
    \/ \E i \in 1..MaxGenerate, kind \in {"ok"} \cup FailureKinds, same \in Readings :
          GenerateResolve(i, kind, same)
    \/ \E timer \in 1..MaxTimers : PollTick(timer)
    \/ \E i \in 1..MaxInFlight, response \in StatusResponses, same \in Readings :
          PollResolve(i, response, same)
    \/ HandleReset
    \/ SuggestionTimer

SpecEnhanced == InitEnhanced /\ [][NextEnhanced]_vars

---------------------------------------------------------------------------
(* The session with DownloadManager: the page initializes the downloads of *)
(* the session whose download section is shown.                            *)

NextSession ==
    \/ Next
    \/ /\ dom.downloadSection
       /\ currentFileId # NoId
       /\ InitializeDownloads(currentFileId)
    \/ DownloadManagerReset

SpecSession == Init /\ [][NextSession]_vars

---------------------------------------------------------------------------
(* File selection alone, over every file of Files, on the enhanced page;  *)
(* the notifications leave through the Escape key. Their timers and close  *)
(* controls are in SpecNotify.                                             *)

NextFile ==
    \/ \E file \in Files : HandleDrop(file)
    \/ \E file \in Files, same \in Readings : HandleFileSelect(file, same)
    \/ SuggestionTimer
    \/ Escape
    \/ \E k \in 1..MaxPickNotifications : RemoveNotification(k)

SpecFile == InitEnhanced /\ [][NextFile]_vars

---------------------------------------------------------------------------
(* The notifications of a file selection on the enhanced page: a valid     *)
(* file, a file of a wrong type, a text file over the size limit           *)

NotifyFiles ==
    { [name |-> <<"n", ".", "t", "x", "t">>, type |-> "text/plain", size |-> 5120],
      [name |-> <<"n", ".", "p", "d", "f">>, type |-> "application/pdf", size |-> 5120],
      [name |-> <<"n", ".", "t", "x", "t">>, type |-> "text/plain", size |-> maxSize + 1] }

NextNotify ==
    \/ \E file \in NotifyFiles : HandleDrop(file)
    \/ \E file \in NotifyFiles, same \in Readings : HandleFileSelect(file, same)
    \/ SuggestionTimer
    \/ \E i \in 1..MaxPickNotifications : AutoHide(i)
    \/ \E k \in 1..MaxPickNotifications : CloseNotification(k)
    \/ Escape
    \/ \E k \in 1..MaxPickNotifications : RemoveNotification(k)

SpecNotify == InitEnhanced /\ [][NextNotify]_vars

---------------------------------------------------------------------------
(* DownloadManager alone *)

NextDownload ==
    \/ \E processId \in FileIds : InitializeDownloads(processId)
    \/ \E fileType \in ArtifactTypes, click \in BOOLEAN : DownloadFile(fileType, click)
    \/ \E fileType \in ArtifactTypes, outcome \in DownloadOutcomes :
          DownloadResolve(fileType, outcome)
    \/ \E fileType \in ArtifactTypes : RevertTimer(fileType)
    \/ MessageTimer
    \/ \E wordReady \in BOOLEAN, pdfReady \in BOOLEAN :
          UpdateDownloadAvailability(wordReady, pdfReady)
    \/ DownloadManagerReset

SpecDownload == Init /\ [][NextDownload]_vars

\* A timer set with setTimeout fires: the event loop runs the callback of
\* every pending timer, and nothing in download.js clears one.
SpecDownloadFair ==
    SpecDownload /\ \A fileType \in ArtifactTypes : WF_vars(RevertTimer(fileType))

---------------------------------------------------------------------------
(* extractFilename alone: one response, any header, type and date *)

InitFilename ==
    /\ enhanced = FALSE
    /\ InitPage
    /\ saveAs \in [contentDisposition : Headers, fileType : ArtifactTypes \cup {"txt"},
                   today : Dates, filename : {<<>>}]
    /\ networkError = NoNetworkError
    /\ welcome = Welcomed
    /\ errorLog = <<>>

NextFilename == ExtractFilename

SpecFilename == InitFilename /\ [][NextFilename]_vars

---------------------------------------------------------------------------
(* ErrorHandler.logError alone, from a log of any length it can have *)

\* A log of m entries made before the page is looked at.
earlierLog(m) == [i \in 1..m |-> [type |-> "Network Error", n |-> i - m]]

InitLog ==
    /\ enhanced = TRUE
    /\ InitPage
    /\ saveAs = NoSave
    /\ networkError = NoNetworkError
    /\ welcome = Welcomed
    /\ errorLog \in {earlierLog(m) : m \in 0..50}

NextLog == \E type \in LogTypes : LogError(type)

SpecLog == InitLog /\ [][NextLog]_vars

---------------------------------------------------------------------------
(* ErrorHandler.handleNetworkError alone: one failed request of any status *)

InitClassify ==
    /\ enhanced = TRUE
    /\ InitPage
    /\ saveAs = NoSave
    /\ errorLog = <<>>
    /\ networkError \in [status : {NoStatus} \cup FailedStatuses, title : {""},
                         message : {<<>>}]
    /\ welcome = Welcomed

NextClassify == HandleNetworkError

SpecClassify == InitClassify /\ [][NextClassify]_vars

---------------------------------------------------------------------------
(* The welcome guide: page loads of a first-time and of a returning visitor *)

\* showWelcomeGuide without the localStorage.setItem that follows it.
welcomeGuide_FlagNotSet(w) == [w EXCEPT !.shown = @ + 1]

\* part_000:41-44: showWelcomeGuide, then localStorage.setItem.
welcomeGuide(w) == [w EXCEPT !.shown = @ + 1, !.visited = TRUE]

\* part_000:39-45, the 1000 ms timer of initializeEnhancedUX.
WelcomeTimer ==
    /\ welcome.timer
    /\ IF ~welcome.visited
       THEN /\ Len(notifications.container) < MaxPickNotifications
            /\ notifications' = showNotification(notifications, "info", 1, FALSE)
            /\ welcome' = [welcomeGuide(welcome) EXCEPT !.timer = FALSE]
       ELSE /\ welcome' = [welcome EXCEPT !.timer = FALSE]
            /\ UNCHANGED notifications
    /\ lastOp' = Did("welcome", IF welcome.visited THEN "visited" ELSE "first")
    /\ UNCHANGED <<enhanced, networkError, pm, orchVars, suggestionTimers, currentStep,
                   errorLog, dmVars>>

\* The page is loaded again: every script starts over, the timers of the
\* old page are gone, localStorage stays. part_000:24-27 sets the timer
\* when window.enhancedUX exists.
Reload ==
    /\ welcome.startups < MaxStartups
    /\ welcome' = [welcome EXCEPT !.timer = enhanced, !.startups = @ + 1]
    /\ currentFileId' = NoId
    /\ processCheckInterval' = NoTimer
    /\ selectedFile' = NoFile
    /\ dom' = InitDom
    /\ activeTimers' = {}
    /\ nextTimer' = 1
    /\ statusInFlight' = <<>>
    /\ generating' = <<>>
    /\ successTimers' = FALSE
    /\ notifications' = NoNotifications
    /\ suggestionTimers' = 0
    /\ currentStep' = 1
    /\ dm' = [currentProcessId |-> NoId, downloadSection |-> FALSE,
              handlers |-> FALSE, message |-> "none"]
    /\ button' = InitButton
    /\ downloadsInFlight' = [t \in ArtifactTypes |-> 0]
    /\ revertTimers' = [t \in ArtifactTypes |-> 0]
    /\ messageTimers' = 0
    /\ consecutiveFailures' = 0
    /\ errorLog' = <<>>
    /\ saveAs' = NoSave
    /\ networkError' = NoNetworkError
    /\ pm' = NoProgressManager
    /\ lastOp' = Did("load", "")
    /\ UNCHANGED enhanced

InitWelcome ==
    /\ enhanced = TRUE
    /\ InitPage
    /\ saveAs = NoSave
    /\ errorLog = <<>>
    /\ networkError = NoNetworkError
    /\ welcome \in [visited : BOOLEAN, timer : {TRUE}, startups : {1}, shown : {0}]

NextWelcome ==
    \/ WelcomeTimer
    \/ Reload
    \/ \E file \in SessionFiles : HandleDrop(file)
    \/ HandleReset
    \/ \E i \in 1..MaxPickNotifications : AutoHide(i)
    \/ \E k \in 1..MaxPickNotifications : CloseNotification(k)
    \/ Escape
    \/ \E k \in 1..MaxPickNotifications : RemoveNotification(k)

SpecWelcome == InitWelcome /\ [][NextWelcome]_vars

---------------------------------------------------------------------------
(* ProgressManager alone, called in any order *)

NextProgressManager ==
    \/ StartProgress
    \/ \E timer \in 1..MaxProgressTimers : ProgressTick(timer)
    \/ \E answer \in ProgressAnswers : ProgressResolve(answer)
    \/ CompleteProgress
    \/ ErrorProgress
    \/ \E timer \in BOOLEAN : HideProgress(timer)
    \/ ProgressReset

SpecProgressManager == Init /\ [][NextProgressManager]_vars

---------------------------------------------------------------------------
(* Polling (Spec) *)

CompletedPoll == lastOp.op = "poll" /\ lastOp.outcome = "completed"
FailedRequestPoll == lastOp.op = "poll" /\ lastOp.outcome \in FailureKinds

\* C1: once a status response with status=completed has been processed the
\* download section is shown and no interval timer is live, and while no
\* timer is live no further GET /api/status is dispatched.
C1_CompletedStopsPolling ==
    /\ [](CompletedPoll => dom.downloadSection /\ activeTimers = {})
    /\ [][activeTimers = {} /\ activeTimers' = {}
             => Len(statusInFlight') <= Len(statusInFlight)]_vars

\* The 5 KB file of session abc123 is processed, the poller of that session
\* receives status=completed, progress=100 and has stopped.
C1_Witness ==
    /\ CompletedPoll
    /\ ~lastOp.stale
    /\ currentFileId = "abc123"
    /\ dom.progressFill = 100
    /\ dom.downloadSection
    /\ activeTimers = {}

C3_StaleResolutionDiscarded ==
    [][(/\ lastOp'.op = "poll"
        /\ lastOp'.stale
        /\ Len(statusInFlight') < Len(statusInFlight))
          => UNCHANGED <<dom, activeTimers, successTimers>>]_vars

---------------------------------------------------------------------------
(* Reset (SpecSession) *)

DownloadStateCleared ==
    /\ dm.currentProcessId = NoId
    /\ ~dm.downloadSection
    /\ \A t \in ArtifactTypes : button[t].class = "normal"

\* C4: the state handleReset leaves is the state a second handleReset
\* leaves (session id, file, timer handle and page are at the values reset
\* assigns), with no live poll timer and no download state left.
C4_ResetIdempotent ==
    lastOp.op = "reset" =>
        /\ currentFileId = NoId
        /\ selectedFile = NoFile
        /\ processCheckInterval = NoTimer
        /\ dom = resetDom(dom)
        /\ activeTimers = {}
        /\ DownloadStateCleared

\* C5: after handleReset from a completed or failed session the session
\* id, the file, the DownloadManager's process id and button states, the
\* poll timer and the messages of the session are all cleared.
C5_ResetClearsSession ==
    (lastOp.op = "reset" /\ lastOp.outcome \in {"Completed", "Failed"}) =>
        /\ currentFileId = NoId
        /\ selectedFile = NoFile
        /\ activeTimers = {}
        /\ DownloadStateCleared
        /\ notifications.container = <<>>
        /\ ~dom.errorMessage
        /\ ~dom.successMessage

---------------------------------------------------------------------------
(* Downloads (SpecDownload) *)

\* The phase of an artifact type is the state class of its button.
PhaseMoves ==
    { <<"normal", "downloading">>,
      <<"downloading", "completed">>, <<"downloading", "error">>,
      <<"completed", "normal">>, <<"error", "normal">> }

DownloadStep(op) == op \in {"click", "call", "downloaded", "revert"}

\* C6: a downloadFile call, a response resolution or a revert timer changes
\* the phase of an artifact type only along
\* Idle -> InFlight -> {Completed, Error} -> Idle.
C6_PhaseTransitions ==
    [][DownloadStep(lastOp'.op) =>
          \A t \in ArtifactTypes :
              button'[t].class # button[t].class
                  => <<button[t].class, button'[t].class>> \in PhaseMoves]_vars

\* C7: downloadFile(t) while t is InFlight changes nothing of the
\* DownloadManager (no request, no message, same phase), and a request for
\* t is issued only when t is Idle and available.
C7_DownloadGuard ==
    [][\A t \in ArtifactTypes :
          /\ (/\ lastOp'.op \in {"click", "call"}
              /\ lastOp'.outcome = t
              /\ button[t].class = "downloading")
                 => UNCHANGED <<dm, button, downloadsInFlight, revertTimers,
                                messageTimers, notifications>>
          /\ downloadsInFlight'[t] > downloadsInFlight[t]
                 => button[t].class = "normal" /\ ~button[t].unavailable]_vars

---------------------------------------------------------------------------
(* File selection (SpecFile) *)

Selection == lastOp.op \in {"drop", "pick"}

\* The names of FileNames that end in .txt, letter case ignored.
TxtNames == { <<"n", ".", "t", "x", "t">>, <<"N", ".", "T", "X", "T">> }

WrongType(file) == file.type # "text/plain" /\ file.name \notin TxtNames

\* C8: a dropped or picked file is rejected for its type exactly when its
\* type is not text/plain and its name does not end in .txt in any letter
\* case; the rejection stores nothing and leaves the page as it was, so no
\* file of a wrong type is ever the selected file.
C8_TypeRejection ==
    /\ [](Selection => (lastOp.outcome = "type" <=> WrongType(lastOp.file)))
    /\ [](selectedFile # NoFile => ~WrongType(selectedFile))
    /\ [](dom.generateSection => selectedFile # NoFile)
    /\ [][lastOp'.outcome = "type" => UNCHANGED <<selectedFile, dom>>]_vars

\* The PDF n.pdf is picked on the idle page and rejected for its type.
C8_Witness ==
    /\ lastOp.op = "pick"
    /\ lastOp.outcome = "type"
    /\ lastOp.file.name = <<"n", ".", "p", "d", "f">>
    /\ lastOp.file.type = "application/pdf"
    /\ selectedFile = NoFile
    /\ ~dom.generateSection

\* C9: no file larger than 10485760 bytes is ever the selected file, and a
\* file of exactly 10485760 bytes with a valid type is stored and the
\* generate section shown.
C9_SizeLimit ==
    /\ selectedFile # NoFile => selectedFile.size <= 10485760
    /\ (Selection /\ lastOp.file.size > 10485760) => lastOp.outcome # "stored"
    /\ (Selection /\ lastOp.file.size = 10485760 /\ ~WrongType(lastOp.file))
          => /\ lastOp.outcome = "stored"
             /\ selectedFile = lastOp.file
             /\ dom.generateSection

\* A text file of exactly 10 MiB has been stored.
C9_Witness ==
    /\ Selection
    /\ lastOp.file.size = 10485760
    /\ lastOp.file.type = "text/plain"
    /\ selectedFile = lastOp.file
    /\ dom.generateSection

\* C10: a file of size zero is never the selected file.
C10_EmptyNeverSelected ==
    /\ selectedFile # NoFile => selectedFile.size > 0
    /\ (Selection /\ lastOp.file.size = 0) => lastOp.outcome # "stored"

---------------------------------------------------------------------------
(* Error reports of a selection (SpecFile) *)

\* The error notifications on display.
ErrorCount(ns) ==
    Cardinality({i \in 1..Len(ns.container) : ns.container[i].type = "error"})

\* C11: a drop or pick that processFile rejects adds exactly one error
\* notification, whatever rules the file breaks and whichever listeners ran.
C11_OneReportPerRejection ==
    [][(lastOp'.op \in {"drop", "pick"} /\ lastOp'.outcome # "stored")
          => ErrorCount(notifications') = ErrorCount(notifications) + 1]_vars

---------------------------------------------------------------------------
(* Failed upload or generation trigger (Spec) *)

\* C12: when the upload or the generation trigger is rejected or answered
\* with a response that is not ok, the handler keeps the selected file,
\* shows the error, leaves the generate button enabled and visible and the
\* progress bar hidden, and starts no poll timer.
C12_FailedGenerateReturns ==
    [][(lastOp'.op \in {"upload", "trigger"} /\ lastOp'.outcome \in FailureKinds)
          => /\ selectedFile' = selectedFile
             /\ dom'.errorMessage
             /\ ~dom'.generateButton.disabled
             /\ dom'.generateButton.display
             /\ ~dom'.progressContainer
             /\ activeTimers' = activeTimers
             /\ processCheckInterval' = processCheckInterval
             /\ nextTimer' = nextTimer
             /\ Len(generating') < Len(generating)]_vars

\* The upload gave abc123, the trigger was answered with a response that is
\* not ok, and the page is back with the file selected and no poller.
C12_Witness ==
    /\ lastOp.op = "trigger"
    /\ lastOp.outcome = "non2xx"
    /\ currentFileId = "abc123"
    /\ selectedFile \in SessionFiles
    /\ dom.generateSection
    /\ dom.errorMessage
    /\ ~dom.generateButton.disabled
    /\ dom.generateButton.display
    /\ ~dom.progressContainer
    /\ activeTimers = {}
    /\ generating = <<>>

---------------------------------------------------------------------------
(* File name of a download (SpecFilename) *)

\* The value of the filename parameter of a header: what follows the first
\* filename= up to the next semicolon, or between the quotes if it is quoted.
FilenameParameter(h) ==
    LET i == CHOOSE k \in 1..(Len(h) - 1) :
                 /\ h[k] = "filename" /\ h[k + 1] = "="
                 /\ \A k2 \in 1..(k - 1) : ~(h[k2] = "filename" /\ h[k2 + 1] = "=")
        raw == SubSeq(h, i + 2, FirstIndex(h, i + 2, {";"}) - 1)
        close == IF raw # <<>> /\ raw[1] \in Quotes
                 THEN FirstIndex(h, i + 3, {h[i + 2]})
                 ELSE Len(h) + 1
    IN IF close <= Len(h) THEN SubSeq(h, i + 3, close - 1) ELSE raw

\* The header has a filename parameter with a value that is not empty and
\* has no quote character in it.
HasPlainFilename(h) ==
    /\ \E k \in 1..(Len(h) - 1) : h[k] = "filename" /\ h[k + 1] = "="
    /\ FilenameParameter(h) # <<>>
    /\ \A k \in 1..Len(FilenameParameter(h)) : FilenameParameter(h)[k] \notin Quotes

Extracted == lastOp.op = "extractFilename"

\* C13: for a header with filename=value or filename="value" the derived
\* name is exactly value; for an absent header it is
\* meeting_minutes_<date>.docx for word and meeting_minutes_<date>.pdf for
\* any other type.
C13_ExtractFilename ==
    Extracted =>
        /\ HasPlainFilename(saveAs.contentDisposition)
              => saveAs.filename = FilenameParameter(saveAs.contentDisposition)
        /\ saveAs.contentDisposition = NoHeader
              => saveAs.filename =
                    <<"meeting_minutes_", saveAs.today, ".",
                      IF saveAs.fileType = "word" THEN "docx" ELSE "pdf">>

---------------------------------------------------------------------------
(* The poll timer and its requests (Spec) *)

\* C14: at no time is more than one interval timer of the poller live.
C14_OnePollTimer == Cardinality(activeTimers) <= 1

\* A second session has started its poller after the first one was stopped,
\* and that poller is the only live timer.
C14_Witness ==
    /\ lastOp.op = "trigger"
    /\ lastOp.outcome = "ok"
    /\ processCheckInterval = 2
    /\ activeTimers = {2}

\* C15: at most one GET /api/status is awaiting its response.
C15_OneStatusRequest == Len(statusInFlight) <= 1

FailedRequestStep == lastOp'.op = "poll" /\ lastOp'.outcome \in FailureKinds

---------------------------------------------------------------------------
(* The session id and the order of the transitions (Spec) *)

Idle ==
    /\ selectedFile = NoFile
    /\ ~dom.generateSection
    /\ ~dom.progressContainer
    /\ ~dom.downloadSection
    /\ activeTimers = {}

\* C17: currentFileId is set while the poller runs, while progress is shown
\* and while the download section is shown, and it is not set while the
\* page is idle.
C17_SessionIdLifecycle ==
    /\ (activeTimers # {} \/ dom.progressContainer \/ dom.downloadSection)
          => currentFileId # NoId
    /\ Idle => currentFileId = NoId

\* C18: storing a file while a session exists (its id is set and
\* handleGenerate has finished: the session is processing, completed or
\* failed) clears the id, stops the poller and hides the download section.
C18_NewFileDestroysSession ==
    [][(/\ lastOp'.op \in {"drop", "pick"}
        /\ lastOp'.outcome = "stored"
        /\ currentFileId # NoId
        /\ generating = <<>>)
          => /\ selectedFile' = lastOp'.file
             /\ currentFileId' = NoId
             /\ activeTimers' = {}
             /\ ~dom'.downloadSection]_vars

\* C19: handleGenerate without a file sends nothing; the trigger is sent
\* only by the step that receives the ok upload response with its file id;
\* a poller is started only by the step that receives the ok trigger
\* response, with that id as currentFileId; progress is never shown on a
\* page without a selected file.
C19_NoSkippedTransition ==
    [][/\ (lastOp'.op = "generate" /\ lastOp'.outcome = "nofile")
             => UNCHANGED <<generating, statusInFlight>>
       /\ (\E i \in 1..Len(generating) :
              /\ generating[i] = "upload"
              /\ Len(generating') = Len(generating)
              /\ generating'[i] = "generate")
             => lastOp'.op = "upload" /\ lastOp'.outcome = "ok"
                /\ currentFileId' \in FileIds
       /\ nextTimer' # nextTimer
             => lastOp'.op = "trigger" /\ lastOp'.outcome = "ok"
                /\ currentFileId' \in FileIds
       /\ (~dom.progressContainer /\ dom'.progressContainer)
             => selectedFile' # NoFile]_vars

\* C20: a response to the upload or to the trigger that arrives on a page
\* reset since the request was sent (no selected file) sets no id, sends
\* no trigger, shows no progress and starts no poller.
C20_LateGenerateIgnored ==
    [][(lastOp'.op \in {"upload", "trigger"} /\ selectedFile = NoFile)
          => /\ UNCHANGED <<currentFileId, dom, activeTimers, processCheckInterval>>
             /\ \A i \in 1..Len(generating') : generating'[i] # "generate"]_vars

---------------------------------------------------------------------------
(* Concurrent activations of handleGenerate (Spec) *)

\* C21: at most one handleGenerate activation is awaiting the response of
\* its upload or of its generation trigger; a click, the Enter key or a
\* retry action during that time starts no second one.
C21_OneChainInFlight == Len(generating) <= 1

---------------------------------------------------------------------------
(* Automatic removal of notifications (SpecNotify) *)

\* C22: a 5000 ms timer never hides an error notification, and every
\* notification on display that is not an error and is not being dismissed
\* has its 5000 ms timer pending, so that it is removed when the timer fires.
C22_AutoDismiss ==
    /\ [][lastOp'.op = "autohide"
             => \A k \in 1..Len(notifications.container) :
                    notifications.container[k].type = "error"
                        => notifications'.container[k].hiding
                              = notifications.container[k].hiding]_vars
    /\ [](\A k \in 1..Len(notifications.container) :
             (/\ notifications.container[k].type # "error"
              /\ ~notifications.container[k].hiding)
                => \E t \in 1..Len(notifications.timers) :
                       notifications.timers[t] = notifications.container[k].id)

---------------------------------------------------------------------------
(* The error log (SpecLog) *)

\* C24: the log never holds more than 50 entries; a logError call appends
\* one entry, the newest of the log; when that makes 51 entries the log
\* becomes the 25 newest in their order, otherwise the entries before stay
\* as they were.
C24_BoundedLog ==
    /\ [](Len(errorLog) <= 50)
    /\ [][errorLog' # errorLog
             => /\ errorLog'[Len(errorLog')].n = lastLogged(errorLog) + 1
                /\ errorLog'[Len(errorLog')].type = lastOp'.outcome
                /\ IF Len(errorLog) + 1 > 50
                   THEN /\ Len(errorLog') = 25
                        /\ \A j \in 1..24 :
                              errorLog'[j] = errorLog[Len(errorLog) - 24 + j]
                   ELSE /\ Len(errorLog') = Len(errorLog) + 1
                        /\ \A j \in 1..Len(errorLog) :
                              errorLog'[j] = errorLog[j]]_vars

\* A call on a log of 50 entries has left the 24 newest of them and the
\* new one.
C24_Witness ==
    /\ lastOp.op = "logError"
    /\ Len(errorLog) = 25
    /\ errorLog[1].n = -23
    /\ errorLog[24].n = 0
    /\ errorLog[25].n = 1

---------------------------------------------------------------------------
(* Error reports on the enhanced page (SpecEnhanced) *)

\* A step that surfaces an error of one of the classes: a rejected
\* selection, a failed upload or trigger, a failed status request, a job
\* the backend reports as failed, a failed download.
ErrorStep ==
    \/ lastOp'.op \in {"drop", "pick"} /\ lastOp'.outcome # "stored"
    \/ lastOp'.op \in {"upload", "trigger"} /\ lastOp'.outcome \in FailureKinds
    \/ lastOp'.op = "poll" /\ lastOp'.outcome \in FailureKinds \cup {"failed"}
    \/ lastOp'.op = "downloaded" /\ lastOp'.outcome # "ok"

\* C23: every step that surfaces an error appends an entry to the error
\* log.
C23_EveryErrorLogged ==
    [][ErrorStep => lastLogged(errorLog') > lastLogged(errorLog)]_vars

\* C25: no error notification on display has an empty list of actions.
C25_ErrorsCarryAction ==
    \A k \in 1..Len(notifications.container) :
        notifications.container[k].type = "error"
            => notifications.container[k].actions > 0

---------------------------------------------------------------------------
(* The network classifier (SpecClassify) *)

\* C26: every failed request gets exactly one title, fixed by its status:
\* 400 invalid request, 401 authentication required, 403 access denied,
\* 404 not found, 413 file too large, 429 too many requests, 500 server
\* error, 502/503/504 service unavailable, no status unable to connect,
\* and any other status the generic network error whose message holds the
\* status code.
C26_Classifier ==
    LET status == networkError.status
        title == networkError.title
        Named == {400, 401, 403, 404, 413, 429, 500, 502, 503, 504}
    IN lastOp.op = "handleNetworkError" =>
        /\ title # ""
        /\ status = 400 => title = "Invalid Request"
        /\ status = 401 => title = "Authentication Required"
        /\ status = 403 => title = "Access Denied"
        /\ status = 404 => title = "Not Found"
        /\ status = 413 => title = "File Too Large"
        /\ status = 429 => title = "Too Many Requests"
        /\ status = 500 => title = "Server Error"
        /\ status \in {502, 503, 504} => title = "Service Unavailable"
        /\ status = NoStatus =>
              /\ title = "Connection Error"
              /\ networkError.message = <<"Unable to connect to the server. Please check your internet connection and try again.">>
        /\ status \notin Named \cup {NoStatus} =>
              /\ title = "Network Error"
              /\ \E k \in 1..Len(networkError.message) :
                    networkError.message[k] = statusText(status)

C26_Witness ==
    /\ lastOp.op = "handleNetworkError"
    /\ networkError.status = 503
    /\ networkError.title = "Service Unavailable"

---------------------------------------------------------------------------
(* The download button returns to normal (SpecDownloadFair) *)

---------------------------------------------------------------------------
(* Terminal responses (Spec) *)

\* C28: after the poll response that completed or failed the session, the
\* resolution of another status request or a tick of a poll timer leaves
\* the generate button, the progress container and the download section
\* as they are.
C28_TerminalStays ==
    [][(/\ lastOp.op = "poll"
        /\ ~lastOp.stale
        /\ lastOp.outcome \in {"completed", "failed"} \cup FailureKinds
        /\ lastOp'.op \in {"poll", "tick"})
          => /\ dom'.generateButton = dom.generateButton
             /\ dom'.progressContainer = dom.progressContainer
             /\ dom'.downloadSection = dom.downloadSection]_vars

---------------------------------------------------------------------------
(* The progress display (SpecProgress) *)

\* The poller is running and the progress container is shown.
Processing == processCheckInterval \in activeTimers /\ dom.progressContainer

\* C29: while the poller runs, a status response that is neither completed
\* nor failed sets the width of the progress bar to the progress it
\* reports, higher or lower than the width before (0 when it reports
\* none), changes nothing else on the page and leaves the poller running.
C29_AppliedVerbatim ==
    [][(/\ Processing
        /\ lastOp'.op = "poll"
        /\ ~lastOp'.stale
        /\ lastOp'.outcome = "processing")
          => /\ lastOp'.progress >= 0 => dom'.progressFill = lastOp'.progress
             /\ lastOp'.progress = NoProgress => dom'.progressFill = 0
             /\ dom' = [dom EXCEPT !.progressFill = dom'.progressFill]
             /\ Processing']_vars

C29_Witness ==
    /\ lastOp.op = "poll"
    /\ ~lastOp.stale
    /\ lastOp.outcome = "processing"
    /\ lastOp.progress = 40
    /\ dom.progressFill = 40
    /\ Processing

\* C30: the width of the progress bar is within 0..100.
C30_ProgressInRange == dom.progressFill \in 0..100

---------------------------------------------------------------------------
(* Completion and the downloads (SpecSession) *)

\* C31: when a poll response completes the session, the poller is stopped
\* and DownloadManager holds the session's id, with the click handlers set
\* and both download buttons normal and enabled.
C31_CompletionInitializesDownloads ==
    (lastOp.op = "poll" /\ lastOp.outcome = "completed" /\ ~lastOp.stale) =>
        /\ activeTimers = {}
        /\ dm.currentProcessId = currentFileId
        /\ dm.handlers
        /\ \A t \in ArtifactTypes :
              button[t].class = "normal" /\ ~button[t].disabled

---------------------------------------------------------------------------
(* The Escape key (SpecNotify) *)

\* C32: the Escape key starts the removal of every notification on
\* display, of whatever type.
C32_EscapeDismissesAll ==
    [][lastOp'.op = "escape"
         => \A k \in 1..Len(notifications'.container) :
               notifications'.container[k].hiding]_vars

---------------------------------------------------------------------------
(* Suggestions after an error (SpecEnhanced) *)

\* The notifications of showDetailedError in the container: the error
\* notifications with the two actions Try Again and Get Help.
DetailedErrors(ns) ==
    Cardinality({k \in 1..Len(ns.container) :
                    ns.container[k].type = "error" /\ ns.container[k].actions = 2})

Infos(ns) ==
    Cardinality({k \in 1..Len(ns.container) : ns.container[k].type = "info"})

---------------------------------------------------------------------------
(* The welcome guide (SpecWelcome) *)

---------------------------------------------------------------------------
(* Notification ids (SpecNotify) *)

\* C35: no two notifications on display carry the same id, and the list
\* this.notifications holds exactly the notifications on display, in
\* their order.
C35_UniqueIds ==
    /\ \A j, k \in 1..Len(notifications.container) :
          notifications.container[j].id = notifications.container[k].id => j = k
    /\ Len(notifications.list) = Len(notifications.container)
    /\ \A k \in 1..Len(notifications.list) :
          /\ notifications.list[k].id = notifications.container[k].id
          /\ notifications.list[k].type = notifications.container[k].type

---------------------------------------------------------------------------
(* The download section (Spec) *)

\* C36: while the download section is shown there is a session id and the
\* word link refers to it.
C36_DownloadSectionBound ==
    dom.downloadSection =>
        /\ currentFileId # NoId
        /\ dom.downloadWord.href = currentFileId

---------------------------------------------------------------------------
(* The two listeners of the file input (SpecFile) *)

\* C37: for the file of a change event, validateFileWithFeedback reports
\* it valid exactly when processFile stores it and shows the generate
\* section.
C37_ValidatorsAgree ==
    [][lastOp'.op = "pick"
         => (validateFileWithFeedback(lastOp'.file)
               <=> /\ lastOp'.outcome = "stored"
                   /\ selectedFile' = lastOp'.file
                   /\ dom'.generateSection)]_vars

---------------------------------------------------------------------------
(* The timers of ProgressManager (SpecProgressManager) *)

\* C38: the only interval of ProgressManager that is live is the one
\* updateInterval holds, and after reset none is live.
C38_OneProgressTimer ==
    /\ pm.timers \subseteq {pm.updateInterval}
    /\ lastOp.op = "progressReset" => pm.timers = {}

---------------------------------------------------------------------------
(* The fetch wrapper (SpecEnhanced) *)

\* The error notifications without actions: those of showUserFriendlyError.
WrapperErrors(ns) ==
    Cardinality({k \in 1..Len(ns.container) :
                    ns.container[k].type = "error" /\ ns.container[k].actions = 0})

\* C39: the step in which a request of the orchestrator resolves adds one
\* 'Network Error' entry to the log and one error notification of the
\* wrapper when the fetch was rejected or the response was not ok, and the
\* caller still gets the failure (its catch block logs its own entry); it
\* adds neither when the response was ok.
C39_WrapperRecordsOnce ==
    [][lastOp'.op \in {"upload", "trigger", "poll"}
         => LET failed == lastOp'.outcome \in FailureKinds
                new == {k \in 1..Len(errorLog') : errorLog'[k].n > lastLogged(errorLog)}
                network == {k \in new : errorLog'[k].type = "Network Error"}
            IN /\ Cardinality(network) = IF failed THEN 1 ELSE 0
               /\ WrapperErrors(notifications')
                     = WrapperErrors(notifications) + IF failed THEN 1 ELSE 0
               /\ Cardinality(new \ network) = IF failed THEN 1 ELSE 0]_vars

C39_Witness ==
    /\ lastOp.op = "upload"
    /\ lastOp.outcome = "non2xx"
    /\ Len(errorLog) = 2
    /\ errorLog[1].type = "Network Error"
    /\ errorLog[2].type # "Network Error"
    /\ WrapperErrors(notifications) = 1


---------------------------------------------------------------------------
(* Availability of the artifacts (SpecDownload) *)

\* C40: a download button carrying the 'unavailable' mark of
\* updateDownloadAvailability is disabled: no phase change of a download, no
\* revert timer and no reset of the download manager enables it while the
\* mark is on, so no click can start a download of that artifact.
C40_UnavailableStaysDisabled ==
    \A t \in ArtifactTypes : button[t].unavailable => button[t].disabled

=============================================================================
